---- MODULE Spec2Model ----
(***************************************************************************)
(* Model of the pg Client session (packages/pg/lib/client.js): the         *)
(* connect phase, the query queue and active-query dispatcher, failure     *)
(* propagation and shutdown.  The Connection (transport + codec) and the   *)
(* Query objects are collaborators: the transport is the environment that  *)
(* raises events, a Query records what the session delivers to it.         *)
(*                                                                         *)
(* Scheduling follows Node: a handler runs to completion; callbacks passed *)
(* to process.nextTick are queued in nextTick and run before any further   *)
(* transport event or timer; calls of the public API can come at any point *)
(* between two steps.                                                      *)
(*                                                                         *)
(* Spec is a session with a connect deadline and no query_timeout, on which *)
(* the application calls connect() once.  SpecWithKeys adds repeated        *)
(* connect() calls and the backend's key data to the handshake,             *)
(* SpecReadTimeout gives every query a read timeout, SpecMessages adds the  *)
(* backend's result messages, SpecCancel the cancel() calls made through    *)
(* other clients, SpecSasl the SCRAM exchange of the handshake              *)
(* (packages/pg/lib/crypto/sasl.js).                                        *)
(***************************************************************************)
EXTENDS Integers, Sequences, FiniteSets, TLC

\* ------------------------------------------------------------------ bounds
MaxConnects == 2        \* connect() calls made by the application
MaxQueries == 2
MaxEnds == 2
MaxFaults == 1
MaxKey == 2             \* distinct BackendKeyData payloads
MaxCancels == 2         \* cancel() calls, each made on a client of its own
MaxAuth == 3            \* SASL authentication messages of the backend

\* --------------------------------------------------------- configuration
\* The session is configured with a connect deadline (connectionTimeoutMillis).
\* A deadline that never expires behaves as no deadline.
_connectionTimeoutMillis == 1

\* ------------------------------------------------------------------- state
VARIABLES
  _ending, _ended, _connecting, _connected, _connectionError, _queryable,
  _activeQuery,             \* 0 = null, otherwise a query id
  _queryQueue,              \* sequence of query ids
  readyForQuery,            \* FALSE also stands for the initial undefined
  hasExecuted,
  _connectionCallback,      \* 0 = null/undefined, otherwise a connect-call id
  connectionTimeoutHandle,  \* TRUE while the connect deadline is pending
  processID, secretKey,     \* 0 = null
  connection,               \* [_connecting, _ending, stream, streamError]
  nextTick,                 \* callbacks queued with process.nextTick
  endListeners,             \* end() calls waiting on connection.once('end')
  \* ---- history of what the session did, for stating the properties
  connectLog,               \* per connect() call: outcomes its callback got
  queryInfo,                \* per query() call: its inputs and the flags it saw
  queryLog,                 \* per query: what the session delivered to it
  readTimeoutTimer,         \* per query: "none", "armed", "fired" or "cleared"
  queryCallback,            \* per query: what the caller's callback received
  uncaught,                 \* a handler threw out of the connection's emit
  submitted,                \* queries whose frames were written, in order
  wire,                     \* submitted queries whose window is still open
  closed,                   \* queries in the order their ReadyForQuery came
  emitted,                  \* session events emitted: counts per event name
  endLog,                   \* per end() call: how often it has completed
  streamCalls,              \* calls made on the transport: counts per operation
  opens,                    \* number of connection.connect() calls
  faults,                   \* number of fault events raised by the transport
  cancellers,               \* per cancel() call: the cancelling client's side
  password,                 \* this.password, once it has been read
  saslStream,               \* enableChannelBinding && connection.stream, once read
  saslSessions,             \* the session objects startSession has made
  saslSession,              \* this.saslSession: 0 or an index of saslSessions
  saslContinuations,        \* continueSession calls that have not settled
  saslLog,                  \* per SASL message handled: the step and what it threw
  saslSent                  \* SASL messages written to the connection

vars == << _ending, _ended, _connecting, _connected, _connectionError,
           _queryable, _activeQuery, _queryQueue, readyForQuery, hasExecuted,
           _connectionCallback, connectionTimeoutHandle, processID, secretKey, connection,
           nextTick, endListeners, connectLog, queryInfo, queryLog,
           readTimeoutTimer, queryCallback, uncaught, submitted,
           wire, closed, emitted, endLog, streamCalls, opens, faults,
           cancellers, password, saslStream, saslSessions, saslSession,
           saslContinuations, saslLog, saslSent >>

\* The whole state as one record, so that handlers compose as functions.
S == [ _ending |-> _ending, _ended |-> _ended, _connecting |-> _connecting,
       _connected |-> _connected, _connectionError |-> _connectionError,
       _queryable |-> _queryable, _activeQuery |-> _activeQuery,
       _queryQueue |-> _queryQueue, readyForQuery |-> readyForQuery,
       hasExecuted |-> hasExecuted, _connectionCallback |-> _connectionCallback,
       connectionTimeoutHandle |-> connectionTimeoutHandle,
       processID |-> processID, secretKey |-> secretKey,
       connection |-> connection, nextTick |-> nextTick,
       endListeners |-> endListeners, connectLog |-> connectLog,
       queryInfo |-> queryInfo, queryLog |-> queryLog,
       readTimeoutTimer |-> readTimeoutTimer, queryCallback |-> queryCallback,
       uncaught |-> uncaught, submitted |-> submitted,
       wire |-> wire, closed |-> closed, emitted |-> emitted,
       endLog |-> endLog, streamCalls |-> streamCalls, opens |-> opens,
       faults |-> faults, cancellers |-> cancellers, password |-> password,
       saslStream |-> saslStream, saslSessions |-> saslSessions,
       saslSession |-> saslSession, saslContinuations |-> saslContinuations,
       saslLog |-> saslLog, saslSent |-> saslSent ]

Commit(r) ==
  /\ _ending' = r._ending
  /\ _ended' = r._ended
  /\ _connecting' = r._connecting
  /\ _connected' = r._connected
  /\ _connectionError' = r._connectionError
  /\ _queryable' = r._queryable
  /\ _activeQuery' = r._activeQuery
  /\ _queryQueue' = r._queryQueue
  /\ readyForQuery' = r.readyForQuery
  /\ hasExecuted' = r.hasExecuted
  /\ _connectionCallback' = r._connectionCallback
  /\ connectionTimeoutHandle' = r.connectionTimeoutHandle
  /\ processID' = r.processID
  /\ secretKey' = r.secretKey
  /\ connection' = r.connection
  /\ nextTick' = r.nextTick
  /\ endListeners' = r.endListeners
  /\ connectLog' = r.connectLog
  /\ queryInfo' = r.queryInfo
  /\ queryLog' = r.queryLog
  /\ readTimeoutTimer' = r.readTimeoutTimer
  /\ queryCallback' = r.queryCallback
  /\ uncaught' = r.uncaught
  /\ submitted' = r.submitted
  /\ wire' = r.wire
  /\ closed' = r.closed
  /\ emitted' = r.emitted
  /\ endLog' = r.endLog
  /\ streamCalls' = r.streamCalls
  /\ opens' = r.opens
  /\ faults' = r.faults
  /\ cancellers' = r.cancellers
  /\ password' = r.password
  /\ saslStream' = r.saslStream
  /\ saslSessions' = r.saslSessions
  /\ saslSession' = r.saslSession
  /\ saslContinuations' = r.saslContinuations
  /\ saslLog' = r.saslLog
  /\ saslSent' = r.saslSent

\* The state after construction (Client constructor).
Init ==
  /\ _ending = FALSE
  /\ _ended = FALSE
  /\ _connecting = FALSE
  /\ _connected = FALSE
  /\ _connectionError = FALSE
  /\ _queryable = TRUE
  /\ _activeQuery = 0
  /\ _queryQueue = << >>
  /\ readyForQuery = FALSE
  /\ hasExecuted = FALSE
  /\ _connectionCallback = 0
  /\ connectionTimeoutHandle = FALSE
  /\ processID = 0
  /\ secretKey = 0
  /\ connection = [_connecting |-> FALSE, _ending |-> FALSE,
                   stream |-> "new", streamError |-> FALSE]
  /\ nextTick = << >>
  /\ endListeners = {}
  /\ connectLog = << >>
  /\ queryInfo = << >>
  /\ queryLog = << >>
  /\ readTimeoutTimer = << >>
  /\ queryCallback = << >>
  /\ uncaught = FALSE
  /\ submitted = << >>
  /\ wire = << >>
  /\ closed = << >>
  /\ emitted = [e \in {"connect", "error", "end", "drain"} |-> 0]
  /\ endLog = << >>
  /\ streamCalls = [op \in {"destroy", "end", "terminate"} |-> 0]
  /\ opens = 0
  /\ faults = 0
  /\ cancellers = << >>
  /\ password = [type |-> "unread", text |-> << >>]
  /\ saslStream = [kind |-> "unread", raw |-> << >>, signatureAlgorithm |-> ""]
  /\ saslSessions = << >>
  /\ saslSession = 0
  /\ saslContinuations = << >>
  /\ saslLog = << >>
  /\ saslSent = << >>

\* ------------------------------------------------- collaborators' effects

\* EventEmitter.emit on the client: counted per event name.
Emit(s, ev) ==
  IF ev \in DOMAIN s.emitted
  THEN [s EXCEPT !.emitted[ev] = @ + 1]
  ELSE s

\* Invoking the callback of connect() call c with an outcome ("ok" or an error).
CallConnectCallback(s, c, outcome) ==
  [s EXCEPT !.connectLog[c] = Append(@, outcome)]

\* A slip that leaves query.callback in place when the timer has fired.
QueryCallbackStaysInPlace(s, q, outcome) ==
  [s EXCEPT !.queryCallback[q] = Append(@, outcome),
            !.readTimeoutTimer[q] = IF @ = "armed" THEN "cleared" ELSE @]

\* query.callback(outcome).  Client.query wraps the caller's callback of a
\* query with a read timeout: the wrapper clears the timer and calls the
\* caller's callback; once the timer has fired query.callback does nothing.
QueryCallback(s, q, outcome) ==
  IF s.readTimeoutTimer[q] = "fired"
  THEN s
  ELSE [s EXCEPT !.queryCallback[q] = Append(@, outcome),
                 !.readTimeoutTimer[q] = IF @ = "armed" THEN "cleared" ELSE @]

\* Query.handleError(err): the query is told of its failure and calls its
\* callback.  tick says whether the call comes from a process.nextTick
\* callback.
QueryHandleError(s, q, err, tick) ==
  QueryCallback(
    [s EXCEPT !.queryLog[q] = Append(@, [ev |-> "error", err |-> err, tick |-> tick])],
    q, err)

\* Query.handleReadyForQuery(): the query completes and calls its callback.
QueryHandleReadyForQuery(s, q) ==
  QueryCallback(
    [s EXCEPT !.queryLog[q] = Append(@, [ev |-> "ready", err |-> "none", tick |-> FALSE]),
              !.closed = Append(@, q)],
    q, "ok")

\* Query.submit(connection): returns a preflight error without writing, or
\* writes the query's frames and returns nothing.
QuerySubmit(s, q) ==
  IF s.queryInfo[q].submitError
  THEN s
  ELSE [s EXCEPT !.submitted = Append(@, q), !.wire = Append(@, q)]

clearTimeout(s) == [s EXCEPT !.connectionTimeoutHandle = FALSE]

\* stream.destroy(): a stream already destroyed or closed stays as it is;
\* with an error the stream reports it before it closes.
StreamDestroy(s, withError) ==
  LET s1 == [s EXCEPT !.streamCalls["destroy"] = @ + 1] IN
  IF s1.connection.stream \in {"destroyed", "closed"}
  THEN s1
  ELSE [s1 EXCEPT !.connection.stream = "destroyed",
                  !.connection.streamError = withError]

\* Connection.end(): marks the connection as ending, writes Terminate when
\* the stream is connected and writable, and ends the stream.
ConnectionEnd(s) ==
  LET c == s.connection
      s1 == [s EXCEPT !.connection._ending = TRUE,
                      !.streamCalls["end"] = @ + 1,
                      !.streamCalls["terminate"] =
                         IF c._connecting /\ c.stream = "open" THEN @ + 1 ELSE @]
  IN IF c.stream \in {"destroyed", "closed"}
     THEN s1
     ELSE [s1 EXCEPT !.connection.stream = "ended"]

\* ------------------------------------------------------- SCRAM (sasl.js)
\* Strings are sequences of character codes, buffers sequences of bytes.

RECURSIVE Sum(_)
Sum(text) == IF text = << >> THEN 0 ELSE Head(text) + Sum(Tail(text))

\* text.split(','): the pieces between the commas; '' gives one empty piece
RECURSIVE Split(_)
Split(text) ==
  IF \A i \in DOMAIN text : text[i] # 44
  THEN << text >>
  ELSE LET k == CHOOSE i \in DOMAIN text :
                  text[i] = 44 /\ \A j \in 1..(i - 1) : text[j] # 44
       IN << SubSeq(text, 1, k - 1) >> \o Split(SubSeq(text, k + 1, Len(text)))

\* [a-zA-Z0-9+/]
IsBase64Char(c) ==
  \/ (c >= 97 /\ c <= 122)
  \/ (c >= 65 /\ c <= 90)
  \/ (c >= 48 /\ c <= 57)
  \/ c = 43
  \/ c = 47

\* isPrintableChars
isPrintableChars(text) ==
  \A i \in DOMAIN text : (text[i] >= 33 /\ text[i] <= 43)
                            \/ (text[i] >= 45 /\ text[i] <= 126)

\* isBase64: groups of four base64 characters, the last one of which may
\* end in '=' or '=='
isBase64(text) ==
  LET n == Len(text) IN
  /\ n % 4 = 0
  /\ \/ n = 0
     \/ /\ \A i \in 1..(n - 2) : IsBase64Char(text[i])
        /\ \/ (IsBase64Char(text[n - 1]) /\ (IsBase64Char(text[n]) \/ text[n] = 61))
           \/ (text[n - 1] = 61 /\ text[n] = 61)

\* /^[1-9][0-9]*$/
IsPositiveDecimal(text) ==
  /\ text # << >>
  /\ text[1] >= 49 /\ text[1] <= 57
  /\ \A i \in DOMAIN text : text[i] >= 48 /\ text[i] <= 57

\* parseInt(text, 10) of a decimal numeral
RECURSIVE parseInt(_)
parseInt(text) ==
  IF text = << >> THEN 0
  ELSE 10 * parseInt(SubSeq(text, 1, Len(text) - 1)) + (text[Len(text)] - 48)

\* The decimal numeral of a number, as string concatenation writes it
RECURSIVE NumberToString(_)
NumberToString(n) ==
  IF n < 10 THEN << 48 + n >>
  ELSE NumberToString(n \div 10) \o << 48 + (n % 10) >>

\* The character of a base64 digit 0..63
Base64Digit(d) ==
  IF d < 26 THEN 65 + d
  ELSE IF d < 52 THEN 97 + (d - 26)
  ELSE IF d < 62 THEN 48 + (d - 52)
  ELSE IF d = 62 THEN 43 ELSE 47

\* buffer.toString('base64')
RECURSIVE toBase64(_)
toBase64(bytes) ==
  IF bytes = << >> THEN << >>
  ELSE IF Len(bytes) = 1
  THEN << Base64Digit(bytes[1] \div 4), Base64Digit((bytes[1] % 4) * 16), 61, 61 >>
  ELSE IF Len(bytes) = 2
  THEN << Base64Digit(bytes[1] \div 4),
          Base64Digit((bytes[1] % 4) * 16 + bytes[2] \div 16),
          Base64Digit((bytes[2] % 16) * 4), 61 >>
  ELSE << Base64Digit(bytes[1] \div 4),
          Base64Digit((bytes[1] % 4) * 16 + bytes[2] \div 16),
          Base64Digit((bytes[2] % 16) * 4 + bytes[3] \div 64),
          Base64Digit(bytes[3] % 64) >> \o toBase64(SubSeq(bytes, 4, Len(bytes)))

\* The digit 0..63 of a base64 character
Base64Value(c) ==
  IF c >= 65 /\ c <= 90 THEN c - 65
  ELSE IF c >= 97 /\ c <= 122 THEN c - 97 + 26
  ELSE IF c >= 48 /\ c <= 57 THEN c - 48 + 52
  ELSE IF c = 43 THEN 62 ELSE 63

\* Buffer.from(text, 'base64') of a text that isBase64 accepts
RECURSIVE fromBase64(_)
fromBase64(text) ==
  IF Len(text) < 4 THEN << >>
  ELSE LET a == Base64Value(text[1])
           b == Base64Value(text[2])
           c == Base64Value(text[3])
           d == Base64Value(text[4])
           group == IF text[3] = 61 THEN << a * 4 + b \div 16 >>
                    ELSE IF text[4] = 61
                    THEN << a * 4 + b \div 16, (b % 16) * 16 + c \div 4 >>
                    ELSE << a * 4 + b \div 16, (b % 16) * 16 + c \div 4,
                            (c % 4) * 64 + d >>
       IN group \o fromBase64(SubSeq(text, 5, Len(text)))

\* a ^ b on bytes
RECURSIVE Xor(_, _)
Xor(a, b) ==
  IF a = 0 /\ b = 0 THEN 0
  ELSE 2 * Xor(a \div 2, b \div 2) + ((a + b) % 2)

\* xorBuffers
xorBuffers(a, b) == [i \in DOMAIN a |-> Xor(a[i], b[i])]

\* Stand-ins for crypto/utils (sha256, hmacSha256, deriveKey): three-byte
\* digests that depend on every input.
Digest(seed) == << seed % 256, (seed * 7 + 85) % 256, (seed * 13 + 170) % 256 >>
sha256(bytes) == Digest(Sum(bytes) + 1)
hmacSha256(key, text) == Digest(Sum(key) * 31 + Sum(text) + Len(text))
deriveKey(passwd, saltBytes, iteration) ==
  Digest(Sum(passwd) * 17 + Sum(saltBytes) * 3 + iteration)

\* The string constants of sasl.js
ScramSha256 == "SCRAM-SHA-256"
ScramSha256Plus == "SCRAM-SHA-256-PLUS"
TlsServerEndPoint ==      \* 'p=tls-server-end-point'
  << 112, 61, 116, 108, 115, 45, 115, 101, 114, 118, 101, 114, 45, 101, 110,
     100, 45, 112, 111, 105, 110, 116 >>
ClientFirstBarePrefix == << 110, 61, 42, 44, 114, 61 >>     \* 'n=*,r='
ChannelBindingUnused == << 101, 83, 119, 115 >>             \* 'eSws'
ChannelBindingNone == << 98, 105, 119, 115 >>               \* 'biws'
ClientKeyLabel == << 67, 108, 105, 101, 110, 116, 32, 75, 101, 121 >>
ServerKeyLabel == << 83, 101, 114, 118, 101, 114, 32, 75, 101, 121 >>

\* this.saslSession before AuthenticationSASL and after a finished exchange
NoSession ==
  [mechanism |-> "", clientNonce |-> << >>, response |-> << >>,
   message |-> "", serverSignature |-> << >>]

\* The value of a SCRAM step: what it threw, and the session it leaves
Thrown(error, session) == [error |-> error, session |-> session]
Returned(session) == [error |-> "none", session |-> session]

\* startSession(mechanisms, stream); stream.kind is "none" for a false
\* argument, "socket" for a stream without getPeerCertificate, "tls" for one
\* with it; clientNonce is what crypto.randomBytes(18) gave, in base64
startSession(mechanisms, stream, clientNonce) ==
  LET candidates == IF stream.kind # "none"
                    THEN << ScramSha256Plus, ScramSha256 >>
                    ELSE << ScramSha256 >>
      offered == SelectSeq(candidates, LAMBDA candidate : candidate \in mechanisms)
  IN IF offered = << >>
     THEN Thrown("unsupported", NoSession)
     ELSE LET mechanism == Head(offered)
              gs2Header == IF mechanism = ScramSha256Plus THEN TlsServerEndPoint
                           ELSE IF stream.kind # "none" THEN << 121 >> ELSE << 110 >>
          IN IF mechanism = ScramSha256Plus /\ stream.kind # "tls"
             THEN Thrown("certificate", NoSession)
             ELSE Returned([mechanism |-> mechanism,
                            clientNonce |-> clientNonce,
                            response |-> gs2Header \o << 44, 44 >> \o ClientFirstBarePrefix
                                           \o clientNonce,
                            message |-> "SASLInitialResponse",
                            serverSignature |-> << >>])

\* parseAttributePairs: the pieces between commas, each of the form x=value
AttributePairsValid(text) ==
  \A i \in DOMAIN Split(text) :
     LET attrValue == Split(text)[i]
     IN Len(attrValue) >= 2 /\ attrValue[2] = 61 /\ attrValue[1] \notin {10, 13}

\* attrPairs.get(name): the value of the last pair of that name, the empty
\* text standing for undefined as well (every caller tests !value)
AttributeGet(text, name) ==
  LET pairs == Split(text)
      named == {i \in DOMAIN pairs : pairs[i][1] = name}
  IN IF named = {} THEN << >>
     ELSE LET last == CHOOSE i \in named : \A j \in named : j <= i
          IN SubSeq(pairs[last], 3, Len(pairs[last]))

\* parseServerFirstMessage: the error it throws, or "none"
ServerFirstMessageError(data) ==
  IF ~AttributePairsValid(data) THEN "invalid attribute pair"
  ELSE IF AttributeGet(data, 114) = << >> THEN "nonce missing"
  ELSE IF ~isPrintableChars(AttributeGet(data, 114)) THEN "nonce not printable"
  ELSE IF AttributeGet(data, 115) = << >> THEN "salt missing"
  ELSE IF ~isBase64(AttributeGet(data, 115)) THEN "salt not base64"
  ELSE IF AttributeGet(data, 105) = << >> THEN "iteration missing"
  ELSE IF ~IsPositiveDecimal(AttributeGet(data, 105)) THEN "invalid iteration count"
  ELSE "none"

\* parseServerFirstMessage: what it returns
parseServerFirstMessage(data) ==
  [nonce |-> AttributeGet(data, 114),
   salt |-> AttributeGet(data, 115),
   iteration |-> parseInt(AttributeGet(data, 105))]

\* parseServerFinalMessage: the error it throws, or "none"
ServerFinalMessageError(data) ==
  IF ~AttributePairsValid(data) THEN "invalid attribute pair"
  ELSE IF AttributeGet(data, 101) # << >> THEN "server returned error"
  ELSE IF AttributeGet(data, 118) = << >> THEN "server signature missing"
  ELSE IF ~isBase64(AttributeGet(data, 118)) THEN "server signature not base64"
  ELSE "none"

\* nonce.startsWith(clientNonce)
StartsWith(text, prefix) ==
  Len(text) >= Len(prefix) /\ SubSeq(text, 1, Len(prefix)) = prefix

\* signatureAlgorithmHashFromCertificate with the substitution made by
\* continueSession: MD5 and SHA-1 become SHA-256
ChannelBindingHash(signatureAlgorithm) ==
  IF signatureAlgorithm \in {"MD5", "SHA-1"} THEN "SHA-256" ELSE signatureAlgorithm

\* Stand-in for crypto.hashByName
hashByName(hashName, bytes) ==
  Digest(Sum(bytes) + (IF hashName = "SHA-256" THEN 256 ELSE 512))

\* The error continueSession throws, or "none"
ContinueSessionError(session, passwd, serverData, stream) ==
  IF session = NoSession THEN "TypeError"
  ELSE IF session.message # "SASLInitialResponse"
  THEN "last message was not SASLInitialResponse"
  ELSE IF passwd.type # "string" THEN "password must be a string"
  ELSE IF passwd.text = << >> THEN "password must be non-empty"
  ELSE IF serverData.type # "string" THEN "serverData must be a string"
  ELSE IF ServerFirstMessageError(serverData.text) # "none"
  THEN ServerFirstMessageError(serverData.text)
  ELSE IF ~StartsWith(parseServerFirstMessage(serverData.text).nonce, session.clientNonce)
  THEN "server nonce does not start with client nonce"
  ELSE IF Len(parseServerFirstMessage(serverData.text).nonce) = Len(session.clientNonce)
  THEN "server nonce is too short"
  ELSE IF session.mechanism = ScramSha256Plus /\ stream.kind # "tls"
  THEN "TypeError"
  ELSE IF session.mechanism = ScramSha256Plus /\ stream.signatureAlgorithm = "unknown"
  THEN "unknown signature algorithm"
  ELSE "none"

\* A slip that forgets the test of the last message.
continueSessionInAnyPhase(session, passwd, serverData, stream) ==
  LET error == ContinueSessionError([session EXCEPT !.message = "SASLInitialResponse"],
                                    passwd, serverData, stream)
  IN IF session = NoSession \/ error # "none"
     THEN Thrown(IF session = NoSession THEN "TypeError" ELSE error, session)
     ELSE Returned([session EXCEPT !.message = "SASLResponse"])

\* continueSession(session, password, serverData, stream)
continueSession(session, passwd, serverData, stream) ==
  LET error == ContinueSessionError(session, passwd, serverData, stream)
  IN IF error # "none"
     THEN Thrown(error, session)
     ELSE
       LET sv == parseServerFirstMessage(serverData.text)
           clientFirstMessageBare == ClientFirstBarePrefix \o session.clientNonce
           serverFirstMessage ==
             << 114, 61 >> \o sv.nonce \o << 44, 115, 61 >> \o sv.salt
               \o << 44, 105, 61 >> \o NumberToString(sv.iteration)
           channelBinding ==
             IF session.mechanism = ScramSha256Plus
             THEN toBase64(TlsServerEndPoint \o << 44, 44 >>
                             \o hashByName(ChannelBindingHash(stream.signatureAlgorithm),
                                           stream.raw))
             ELSE IF stream.kind # "none" THEN ChannelBindingUnused
             ELSE ChannelBindingNone
           clientFinalMessageWithoutProof ==
             << 99, 61 >> \o channelBinding \o << 44, 114, 61 >> \o sv.nonce
           authMessage == clientFirstMessageBare \o << 44 >> \o serverFirstMessage
                            \o << 44 >> \o clientFinalMessageWithoutProof
           saltBytes == fromBase64(sv.salt)
           saltedPassword == deriveKey(passwd.text, saltBytes, sv.iteration)
           clientKey == hmacSha256(saltedPassword, ClientKeyLabel)
           storedKey == sha256(clientKey)
           clientSignature == hmacSha256(storedKey, authMessage)
           clientProof == toBase64(xorBuffers(clientKey, clientSignature))
           serverKey == hmacSha256(saltedPassword, ServerKeyLabel)
           serverSignatureBytes == hmacSha256(serverKey, authMessage)
       IN Returned([session EXCEPT
                      !.message = "SASLResponse",
                      !.serverSignature = toBase64(serverSignatureBytes),
                      !.response = clientFinalMessageWithoutProof \o << 44, 112, 61 >>
                                     \o clientProof])

\* finalizeSession(session, serverData)
finalizeSession(session, serverData) ==
  IF session = NoSession THEN Thrown("TypeError", session)
  ELSE IF session.message # "SASLResponse"
  THEN Thrown("last message was not SASLResponse", session)
  ELSE IF serverData.type # "string" THEN Thrown("serverData must be a string", session)
  ELSE IF ServerFinalMessageError(serverData.text) # "none"
  THEN Thrown(ServerFinalMessageError(serverData.text), session)
  ELSE IF AttributeGet(serverData.text, 118) # session.serverSignature
  THEN Thrown("server signature does not match", session)
  ELSE Returned(session)

\* ------------------------------------------------------ Client internals

\* A slip that fails the queued queries and leaves them in the queue.
_errorAllQueriesKeepsQueue(s, err) ==
  LET pending == (IF s._activeQuery # 0 THEN << s._activeQuery >> ELSE << >>)
                   \o s._queryQueue
      tasks == [i \in 1..Len(pending) |->
                  [task |-> "handleError", id |-> pending[i], err |-> err]]
  IN [s EXCEPT !.nextTick = @ \o tasks,
               !._activeQuery = 0]

\* Client._errorAllQueries
_errorAllQueries(s, err) ==
  LET pending == (IF s._activeQuery # 0 THEN << s._activeQuery >> ELSE << >>)
                   \o s._queryQueue
      tasks == [i \in 1..Len(pending) |->
                  [task |-> "handleError", id |-> pending[i], err |-> err]]
  IN [s EXCEPT !.nextTick = @ \o tasks,
               !._activeQuery = 0,
               !._queryQueue = << >>]

\* Client._handleErrorWhileConnecting
_handleErrorWhileConnecting(s, err) ==
  IF s._connectionError
  THEN s
  ELSE LET s1 == clearTimeout([s EXCEPT !._connectionError = TRUE])
       IN IF s1._connectionCallback # 0
          THEN CallConnectCallback(s1, s1._connectionCallback, err)
          ELSE Emit(s1, "error")

\* Client._handleErrorEvent
_handleErrorEvent(s, err) ==
  IF s._connecting
  THEN _handleErrorWhileConnecting(s, err)
  ELSE Emit(_errorAllQueries([s EXCEPT !._queryable = FALSE], err), "error")

\* A slip that pulses without looking at readyForQuery.
PulseAlways(s) == TRUE

\* The test at the top of Client._pulseQueryQueue.
PulseReady(s) == s.readyForQuery = TRUE

\* A slip that emits 'drain' whenever the dispatcher finds nothing to run.
_pulseQueryQueueDrainsUnexecuted(s) ==
  IF PulseReady(s)
  THEN IF s._queryQueue # << >>
       THEN LET q == Head(s._queryQueue)
                s1 == [s EXCEPT !._activeQuery = q,
                                !._queryQueue = Tail(@),
                                !.readyForQuery = FALSE,
                                !.hasExecuted = TRUE]
                s2 == QuerySubmit(s1, q)
            IN IF s.queryInfo[q].submitError
               THEN [s2 EXCEPT !.nextTick =
                        Append(@, [task |-> "submitError", id |-> q, err |-> "preflight"])]
               ELSE s2
       ELSE Emit([s EXCEPT !._activeQuery = 0], "drain")
  ELSE s

\* Client._pulseQueryQueue
_pulseQueryQueue(s) ==
  IF PulseReady(s)
  THEN IF s._queryQueue # << >>
       THEN LET q == Head(s._queryQueue)
                s1 == [s EXCEPT !._activeQuery = q,
                                !._queryQueue = Tail(@),
                                !.readyForQuery = FALSE,
                                !.hasExecuted = TRUE]
                s2 == QuerySubmit(s1, q)
            IN IF s.queryInfo[q].submitError
               THEN [s2 EXCEPT !.nextTick =
                        Append(@, [task |-> "submitError", id |-> q, err |-> "preflight"])]
               ELSE s2
       ELSE IF s.hasExecuted
            THEN Emit([s EXCEPT !._activeQuery = 0], "drain")
            ELSE [s EXCEPT !._activeQuery = 0]
  ELSE s

\* A slip that forwards the ErrorResponse and keeps the query active.
_handleErrorMessageKeepsActive(s, msg) ==
  IF s._connecting
  THEN _handleErrorWhileConnecting(s, msg)
  ELSE IF s._activeQuery = 0
       THEN _handleErrorEvent(s, msg)
       ELSE QueryHandleError(s, s._activeQuery, msg, FALSE)

\* A slip that treats every ErrorResponse as an error of the session.
_handleErrorMessageBreaksSession(s, msg) ==
  IF s._connecting
  THEN _handleErrorWhileConnecting(s, msg)
  ELSE _handleErrorEvent(s, msg)

\* Client._handleErrorMessage: an ErrorResponse of the backend
_handleErrorMessage(s, msg) ==
  IF s._connecting
  THEN _handleErrorWhileConnecting(s, msg)
  ELSE IF s._activeQuery = 0
       THEN _handleErrorEvent(s, msg)
       ELSE QueryHandleError([s EXCEPT !._activeQuery = 0], s._activeQuery, msg, FALSE)

\* A slip that stores the process id in both fields.
_handleBackendKeyDataProcessIDOnly(s, msg) ==
  [s EXCEPT !.processID = msg.processID, !.secretKey = msg.processID]

\* Client._handleBackendKeyData
_handleBackendKeyData(s, msg) ==
  [s EXCEPT !.processID = msg.processID, !.secretKey = msg.secretKey]

\* A slip that marks the session connected and leaves it connecting.
ConnectedKeepsConnecting(s) == [s EXCEPT !._connected = TRUE]

\* The flag change at the head of Client._handleReadyForQuery.
Connected(s) == [s EXCEPT !._connecting = FALSE, !._connected = TRUE]

\* Client._handleReadyForQuery
_handleReadyForQuery(s) ==
  LET s1 == IF s._connecting
            THEN LET a == clearTimeout(Connected(s))
                     b == IF a._connectionCallback # 0
                          THEN [CallConnectCallback(a, a._connectionCallback, "ok")
                                  EXCEPT !._connectionCallback = 0]
                          ELSE a
                 IN Emit(b, "connect")
            ELSE s
      activeQuery == s1._activeQuery
      \* the backend closes the window of the oldest query on the wire
      s2 == [s1 EXCEPT !._activeQuery = 0,
                       !.readyForQuery = TRUE,
                       !.wire = IF @ = << >> THEN @ ELSE Tail(@)]
      s3 == IF activeQuery # 0 THEN QueryHandleReadyForQuery(s2, activeQuery) ELSE s2
  IN _pulseQueryQueue(s3)

\* A slip that emits 'end' from within the handler.
OnConnectionEndEmitsAtOnce(s) ==
  LET error == IF s._ending THEN "terminated" ELSE "unexpected"
      s1 == [_errorAllQueries(clearTimeout(s), error) EXCEPT !._ended = TRUE]
      s2 == IF ~s1._ending
            THEN IF s1._connecting /\ ~s1._connectionError
                 THEN IF s1._connectionCallback # 0
                      THEN CallConnectCallback(s1, s1._connectionCallback, error)
                      ELSE _handleErrorEvent(s1, error)
                 ELSE IF ~s1._connectionError
                      THEN _handleErrorEvent(s1, error)
                      ELSE s1
            ELSE s1
      s3 == Emit(s2, "end")
  IN [s3 EXCEPT !.endLog = [i \in DOMAIN @ |->
                              IF i \in s3.endListeners
                              THEN @[i] + 1
                              ELSE @[i]],
                !.endListeners = {}]

\* A slip that reports the unexpected end also after a connect-phase error.
OnConnectionEndReportsAgain(s) ==
  LET error == IF s._ending THEN "terminated" ELSE "unexpected"
      s1 == [_errorAllQueries(clearTimeout(s), error) EXCEPT !._ended = TRUE]
      s2 == IF ~s1._ending
            THEN IF s1._connecting /\ s1._connectionCallback # 0
                 THEN CallConnectCallback(s1, s1._connectionCallback, error)
                 ELSE _handleErrorEvent(s1, error)
            ELSE s1
      s3 == [s2 EXCEPT !.nextTick = Append(@, [task |-> "emitEnd", id |-> 0, err |-> "none"])]
  IN [s3 EXCEPT !.endLog = [i \in DOMAIN @ |->
                              IF i \in s3.endListeners
                              THEN @[i] + 1
                              ELSE @[i]],
                !.endListeners = {}]

\* The con.once('end', ...) handler installed by Client._connect, followed
\* by the listeners that end() added with connection.once('end', cb).
OnConnectionEnd(s) ==
  LET error == IF s._ending THEN "terminated" ELSE "unexpected"
      s1 == [_errorAllQueries(clearTimeout(s), error) EXCEPT !._ended = TRUE]
      s2 == IF ~s1._ending
            THEN IF s1._connecting /\ ~s1._connectionError
                 THEN IF s1._connectionCallback # 0
                      THEN CallConnectCallback(s1, s1._connectionCallback, error)
                      ELSE _handleErrorEvent(s1, error)
                 ELSE IF ~s1._connectionError
                      THEN _handleErrorEvent(s1, error)
                      ELSE s1
            ELSE s1
      s3 == [s2 EXCEPT !.nextTick = Append(@, [task |-> "emitEnd", id |-> 0, err |-> "none"])]
  IN [s3 EXCEPT !.endLog = [i \in DOMAIN @ |->
                              IF i \in s3.endListeners
                              THEN @[i] + 1
                              ELSE @[i]],
                !.endListeners = {}]

\* Client._connect (Client.connect wraps the promise form into a callback)
_connect(s, callback) ==
  LET s1 == [s EXCEPT !._connectionCallback = callback] IN
  IF s1._connecting \/ s1._connected
  THEN [s1 EXCEPT !.nextTick =
          Append(@, [task |-> "callback", id |-> callback, err |-> "already"])]
  ELSE LET s2 == [s1 EXCEPT !._connecting = TRUE,
                            !.connectionTimeoutHandle = (_connectionTimeoutMillis > 0)]
       \* con.connect(): Connection.connect sets its _connecting and opens the stream
       IN [s2 EXCEPT !.connection._connecting = TRUE,
                     !.connection.stream = "open",
                     !.connection.streamError = FALSE,
                     !.opens = @ + 1]

\* A slip that refuses queries only on a broken session.
QueryRefusedIgnoresEnding(s) ==
  IF ~s._queryable THEN "notQueryable" ELSE "none"

\* A slip that puts the new query in front.
EnqueueInFront(queue, q) == << q >> \o queue

\* this._queryQueue.push(query) in Client.query
Enqueue(queue, q) == Append(queue, q)

\* The test in Client.query that refuses a query.
QueryRefused(s) ==
  IF ~s._queryable THEN "notQueryable"
  ELSE IF s._ending THEN "closed"
  ELSE "none"

\* A slip that fails a refused query from within the call.
queryFailsAtOnce(s, q, readTimeout) ==
  LET s1 == IF readTimeout THEN [s EXCEPT !.readTimeoutTimer[q] = "armed"] ELSE s
  IN IF QueryRefused(s1) # "none"
     THEN QueryHandleError(s1, q, QueryRefused(s1), FALSE)
     ELSE _pulseQueryQueue([s1 EXCEPT !._queryQueue = Enqueue(@, q)])

\* Client.query, from the point where the Query object q exists; readTimeout
\* says whether a query_timeout applies (the timer is armed before the tests)
query(s, q, readTimeout) ==
  LET s1 == IF readTimeout THEN [s EXCEPT !.readTimeoutTimer[q] = "armed"] ELSE s
  IN IF QueryRefused(s1) # "none"
     THEN [s1 EXCEPT !.nextTick =
             Append(@, [task |-> "handleError", id |-> q, err |-> QueryRefused(s1)])]
     ELSE _pulseQueryQueue([s1 EXCEPT !._queryQueue = Enqueue(@, q)])

\* A slip that leaves the timed-out query in the queue.
LeaveInQueue(queue, q) == queue

\* this._queryQueue.splice(index, 1) for the index of q, if q is queued
RemoveFromQueue(queue, q) == SelectSeq(queue, LAMBDA x : x # q)

\* The setTimeout callback that Client.query installs for query q
OnReadTimeout(s, q) ==
  LET s1 == [s EXCEPT !.nextTick = Append(@, [task |-> "handleError", id |-> q,
                                              err |-> "readTimeout"]),
                      !.queryCallback[q] = Append(@, "readTimeout"),
                      !.readTimeoutTimer[q] = "fired",
                      !._queryQueue = RemoveFromQueue(@, q)]
  IN _pulseQueryQueue(s1)

\* Client._handleRowDescription, _handleDataRow, _handlePortalSuspended,
\* _handleEmptyQuery, _handleCopyInResponse, _handleCopyData: the message is
\* passed to the active query; without one the property access throws.
_handleRowDescription(s) ==
  IF s._activeQuery = 0
  THEN [s EXCEPT !.uncaught = TRUE]
  ELSE s

\* Client._handleCommandComplete (and _handleParseComplete, same shape)
_handleCommandComplete(s) ==
  IF s._activeQuery = 0
  THEN _handleErrorEvent(s, "unexpectedCommandComplete")
  ELSE s

\* A slip that asks the target's own connection to connect and cancel.
cancelOnTargetConnection(s, c, q) ==
  IF s._activeQuery = q
  THEN [s EXCEPT !.connection._connecting = TRUE,
                 !.opens = @ + 1,
                 !.cancellers[c].listening = TRUE]
  ELSE IF \E i \in DOMAIN s._queryQueue : s._queryQueue[i] = q
       THEN [s EXCEPT !._queryQueue = RemoveFromQueue(@, q)]
       ELSE s

\* Client.cancel(client, query), called on the cancelling client c; s holds
\* the target client.  con.connect() opens the cancelling client's stream and
\* the listener waits for its 'connect'.
cancel(s, c, q) ==
  IF s._activeQuery = q
  THEN [s EXCEPT !.cancellers[c].stream = "open",
                 !.cancellers[c].listening = TRUE]
  ELSE IF \E i \in DOMAIN s._queryQueue : s._queryQueue[i] = q
       THEN [s EXCEPT !._queryQueue = RemoveFromQueue(@, q)]
       ELSE s

\* The listener that Client.cancel puts on the cancelling client's
\* connection: con.cancel with the keys the target holds at that moment.
OnCancelConnect(s, c) ==
  [s EXCEPT !.cancellers[c].stream = "connected",
            !.cancellers[c].sent =
               IF s.cancellers[c].listening
               THEN Append(@, [processID |-> s.processID, secretKey |-> s.secretKey])
               ELSE @]

\* this.saslSession as continueSession and finalizeSession receive it
SessionObject(s) ==
  IF s.saslSession = 0 THEN NoSession ELSE s.saslSessions[s.saslSession]

\* The catch block of the three SASL handlers: this.connection.emit('error'),
\* which the client hears through con.on('error')
CatchSasl(s, err) ==
  _handleErrorEvent([s EXCEPT !.saslLog[Len(s.saslLog)].error = err], "sasl")

\* The handler of a SASL message has run to its end or into its catch block;
\* offered is the mechanism list of an AuthenticationSASL message
SaslHandling(s, step, offered) ==
  [s EXCEPT !.saslLog = Append(@, [step |-> step, error |-> "none",
                                   offered |-> offered])]

\* A slip that sends the initial response before it looks at the outcome.
_handleAuthSASLSendsFirst(s, msg) ==
  LET r == startSession(msg.mechanisms, s.saslStream, msg.clientNonce)
      s1 == [SaslHandling(s, "start", msg.mechanisms) EXCEPT !.saslSent =
                Append(@, [type |-> "SASLInitialResponse",
                           mechanism |-> r.session.mechanism,
                           data |-> r.session.response])]
  IN IF r.error # "none"
     THEN CatchSasl(s1, r.error)
     ELSE [s1 EXCEPT !.saslSessions = Append(@, r.session),
                     !.saslSession = Len(s.saslSessions) + 1]

\* Client._handleAuthSASL, from the point where _getPassword calls back;
\* msg.clientNonce is what the random source gives this session
_handleAuthSASL(s, msg) ==
  LET r == startSession(msg.mechanisms, s.saslStream, msg.clientNonce)
      s1 == SaslHandling(s, "start", msg.mechanisms)
  IN IF r.error # "none"
     THEN CatchSasl(s1, r.error)
     ELSE [s1 EXCEPT !.saslSessions = Append(@, r.session),
                    !.saslSession = Len(s.saslSessions) + 1,
                    !.saslSent =
                       Append(@, [type |-> "SASLInitialResponse",
                                  mechanism |-> r.session.mechanism,
                                  data |-> r.session.response])]

\* Client._handleAuthSASLContinue up to its await: continueSession runs its
\* tests and starts the key derivation on the session object it was given
_handleAuthSASLContinue(s, msg) ==
  [s EXCEPT !.saslContinuations =
       Append(@, [session |-> s.saslSession,
                  result |-> continueSession(SessionObject(s), s.password,
                                             msg.data, s.saslStream)])]

\* Client._handleAuthSASLContinue after its await: continueSession has
\* thrown, or has written its results into the session object it was given,
\* and the handler sends this.saslSession.response
OnContinueSessionSettled(s, k) ==
  IF k.result.error # "none"
  THEN CatchSasl(SaslHandling(s, "continue", {}), k.result.error)
  ELSE LET s1 == [SaslHandling(s, "continue", {}) EXCEPT
                    !.saslSessions[k.session] = k.result.session]
       IN IF s1.saslSession = 0
          THEN CatchSasl(s1, "TypeError")
          ELSE [s1 EXCEPT !.saslSent =
                             Append(@, [type |-> "SASLResponse",
                                        mechanism |-> "",
                                        data |-> SessionObject(s1).response])]

\* Client._handleAuthSASLFinal
_handleAuthSASLFinal(s, msg) ==
  LET r == finalizeSession(SessionObject(s), msg.data)
      s1 == SaslHandling(s, "final", {})
  IN IF r.error # "none"
     THEN CatchSasl(s1, r.error)
     ELSE [s1 EXCEPT !.saslSession = 0]

\* A slip that forgets the queryable test.
EndForcesDestroyActiveOnly(s) == s._activeQuery # 0

\* The test in Client.end that chooses between destroying and closing.
EndForcesDestroy(s) == s._activeQuery # 0 \/ ~s._queryable

\* Client.end; promise says which form was called, e is the call's id
end(s, e, promise) ==
  LET s1 == [s EXCEPT !._ending = TRUE]
      early == ~s1.connection._connecting \/ s1._ended
      s2 == [s1 EXCEPT !.endLog = Append(@, IF early THEN 1 ELSE 0)]
  IN IF early /\ promise
     THEN s2
     ELSE LET s3 == IF EndForcesDestroy(s2)
                    THEN StreamDestroy(s2, FALSE)
                    ELSE ConnectionEnd(s2)
          IN [s3 EXCEPT !.endListeners = @ \cup {e}]

\* The connect deadline set up in Client._connect
OnConnectTimeout(s) ==
  StreamDestroy([s EXCEPT !.connectionTimeoutHandle = FALSE,
                          !.connection._ending = TRUE], TRUE)

\* One callback queued with process.nextTick
RunTask(s, t) ==
  CASE t.task = "callback" -> CallConnectCallback(s, t.id, t.err)
    [] t.task = "handleError" -> QueryHandleError(s, t.id, t.err, TRUE)
    [] t.task = "submitError" ->
         _pulseQueryQueue([QueryHandleError(s, t.id, t.err, TRUE)
                             EXCEPT !.readyForQuery = TRUE])
    [] t.task = "emitEnd" -> Emit(s, "end")

\* ----------------------------------------------------------------- actions

\* The transport delivers events only between turns of the event loop,
\* after every process.nextTick callback has run.
Idle == nextTick = << >>

\* The stream can still deliver what the backend sent.
Readable == connection._connecting /\ connection.stream \in {"open", "ended"}

\* The application calls connect() on a new client
Connect ==
  /\ connectLog = << >>
  /\ Commit(_connect([S EXCEPT !.connectLog = Append(@, << >>)], 1))

\* The application calls connect() again on a client it has used before
ConnectAgain ==
  /\ connectLog # << >>
  /\ Len(connectLog) < MaxConnects
  /\ Commit(_connect([S EXCEPT !.connectLog = Append(@, << >>)], Len(connectLog) + 1))

\* The application calls query() with a query whose submit() will or will
\* not report a preflight error
Query ==
  /\ Len(queryInfo) < MaxQueries
  /\ \E submitError \in BOOLEAN :
       Commit(query([S EXCEPT !.queryInfo = Append(@, [submitError |-> submitError,
                                                       late |-> ~_queryable \/ _ending]),
                              !.queryLog = Append(@, << >>),
                              !.readTimeoutTimer = Append(@, "none"),
                              !.queryCallback = Append(@, << >>)],
                    Len(queryInfo) + 1, FALSE))

\* The application calls query() with a query that passes its preflight
QueryWritten ==
  /\ Query
  /\ ~queryInfo'[Len(queryInfo')].submitError

\* The application calls query() with a query_timeout in force
QueryWithTimeout ==
  /\ Len(queryInfo) < MaxQueries
  /\ \E submitError \in BOOLEAN :
       Commit(query([S EXCEPT !.queryInfo = Append(@, [submitError |-> submitError,
                                                       late |-> ~_queryable \/ _ending]),
                              !.queryLog = Append(@, << >>),
                              !.readTimeoutTimer = Append(@, "none"),
                              !.queryCallback = Append(@, << >>)],
                    Len(queryInfo) + 1, TRUE))

\* The read timeout of a query expires
ReadTimeout ==
  /\ Idle
  /\ \E q \in DOMAIN readTimeoutTimer :
       /\ readTimeoutTimer[q] = "armed"
       /\ Commit(OnReadTimeout(S, q))

\* The application calls end(), in the callback or the promise form
End ==
  /\ Len(endLog) < MaxEnds
  /\ \E promise \in BOOLEAN : Commit(end(S, Len(endLog) + 1, promise))

\* A callback queued with process.nextTick runs
Tick ==
  /\ nextTick # << >>
  /\ Commit(RunTask([S EXCEPT !.nextTick = Tail(@)], Head(nextTick)))

\* The connect deadline expires
ConnectTimeout ==
  /\ Idle
  /\ connectionTimeoutHandle
  /\ Commit(OnConnectTimeout(S))

\* The connection emits 'error': a stream error, or the error a destroyed
\* stream was given
TransportError ==
  /\ Idle
  /\ connection._connecting
  /\ \/ /\ connection.streamError
        /\ Commit(_handleErrorEvent([S EXCEPT !.connection.streamError = FALSE],
                                    "timeout"))
     \/ /\ Readable
        /\ faults < MaxFaults
        /\ Commit(_handleErrorEvent([S EXCEPT !.faults = @ + 1], "socket"))

\* The backend sends ErrorResponse
ErrorResponse ==
  /\ Idle
  /\ Readable
  /\ faults < MaxFaults
  /\ Commit(_handleErrorMessage([S EXCEPT !.faults = @ + 1], "backend"))

\* The backend sends BackendKeyData
BackendKeyData ==
  /\ Idle
  /\ Readable
  /\ \E k \in 1..MaxKey :
       Commit(_handleBackendKeyData(S, [processID |-> k, secretKey |-> MaxKey + 1 - k]))

\* The backend sends RowDescription, DataRow, PortalSuspended,
\* EmptyQueryResponse, CopyInResponse or CopyData
RowDescription ==
  /\ Idle
  /\ Readable
  /\ Commit(_handleRowDescription(S))

\* The backend sends CommandComplete or ParseComplete; one that comes without
\* an active query counts as a fault of the backend
CommandComplete ==
  /\ Idle
  /\ Readable
  /\ IF _activeQuery = 0
     THEN /\ faults < MaxFaults
          /\ Commit(_handleCommandComplete([S EXCEPT !.faults = @ + 1]))
     ELSE Commit(_handleCommandComplete(S))

\* The application calls cancel(target, query) on a client made for it, with
\* a query it has passed to the target's query()
Cancel ==
  /\ Len(cancellers) < MaxCancels
  /\ \E q \in DOMAIN queryInfo :
       Commit(cancel([S EXCEPT !.cancellers =
                         Append(@, [query |-> q, stream |-> "new",
                                    listening |-> FALSE, sent |-> << >>])],
                     Len(cancellers) + 1, q))

\* The stream of a cancelling client connects
CancelConnect ==
  /\ Idle
  /\ \E c \in DOMAIN cancellers :
       /\ cancellers[c].stream = "open"
       /\ Commit(OnCancelConnect(S, c))

\* What the random source can give as a client nonce
ClientNonces == { << 65, 66 >>, << 65, 43 >> }

\* What the application can have configured as password: a string, the
\* empty string, or nothing
Passwords ==
  { [type |-> "string", text |-> << 112, 119 >>],
    [type |-> "string", text |-> << >>],
    [type |-> "object", text |-> << >>] }

\* What enableChannelBinding && connection.stream can be: false, a plain
\* socket, or a TLS socket whose certificate is signed with the named hash
SaslStreams ==
  { [kind |-> "none", raw |-> << >>, signatureAlgorithm |-> ""],
    [kind |-> "socket", raw |-> << >>, signatureAlgorithm |-> ""],
    [kind |-> "tls", raw |-> << 48, 130 >>, signatureAlgorithm |-> "SHA-1"],
    [kind |-> "tls", raw |-> << 48, 130 >>, signatureAlgorithm |-> "unknown"] }

\* The configuration is fixed when the client is made; the model settles it
\* when a handler first reads it
Configured(s) ==
  { [s EXCEPT !.password = p, !.saslStream = st] :
      p \in (IF s.password.type = "unread" THEN Passwords ELSE {s.password}),
      st \in (IF s.saslStream.kind = "unread" THEN SaslStreams ELSE {s.saslStream}) }

\* Mechanism lists the backend can offer
MechanismOffers ==
  { {}, {ScramSha256}, {ScramSha256Plus}, {ScramSha256, ScramSha256Plus} }

\* Server-first messages: a well-formed one for the nonce 'AB', and ones
\* with a short nonce, a malformed salt, a bad iteration count, a malformed
\* pair; and a value that is no string
ServerFirstMessages ==
  { [type |-> "string", text |-> t] : t \in
      { << 114, 61, 65, 66, 120, 44, 115, 61, 81, 85, 73, 61, 44, 105, 61, 50 >>,
        << 114, 61, 65, 66, 44, 115, 61, 81, 85, 73, 61, 44, 105, 61, 50 >>,
        << 114, 61, 65, 66, 120, 44, 115, 61, 81, 85, 73, 44, 105, 61, 50 >>,
        << 114, 61, 65, 66, 120, 44, 115, 61, 81, 85, 73, 61, 44, 105, 61, 48 >>,
        << 114, 65, 66, 120 >> } }
  \cup { [type |-> "undefined", text |-> << >>] }

\* Server-final messages: the signature the session expects, another
\* signature, an error, no signature; and a value that is no string
ServerFinalMessages(expected) ==
  { [type |-> "string", text |-> t] : t \in
      { << 118, 61 >> \o expected,
        << 118, 61, 81, 85, 74, 68 >>,
        << 101, 61, 120 >>,
        << 120, 61, 49 >> } }
  \cup { [type |-> "undefined", text |-> << >>] }

\* The backend sends AuthenticationSASL
AuthenticationSASL ==
  /\ Idle
  /\ Readable
  /\ Len(saslLog) + Len(saslContinuations) < MaxAuth
  /\ \E s \in Configured(S), mechanisms \in MechanismOffers, clientNonce \in ClientNonces :
       Commit(_handleAuthSASL(s, [mechanisms |-> mechanisms,
                                  clientNonce |-> clientNonce]))

\* The backend sends AuthenticationSASLContinue
AuthenticationSASLContinue ==
  /\ Idle
  /\ Readable
  /\ Len(saslLog) + Len(saslContinuations) < MaxAuth
  /\ \E s \in Configured(S), data \in ServerFirstMessages :
       Commit(_handleAuthSASLContinue(s, [data |-> data]))

\* A continueSession call settles and _handleAuthSASLContinue resumes
ContinueSessionSettles ==
  /\ saslContinuations # << >>
  /\ Commit(OnContinueSessionSettled([S EXCEPT !.saslContinuations = Tail(@)],
                                     Head(saslContinuations)))

\* The backend sends AuthenticationSASLFinal
AuthenticationSASLFinal ==
  /\ Idle
  /\ Readable
  /\ Len(saslLog) + Len(saslContinuations) < MaxAuth
  /\ \E data \in ServerFinalMessages(SessionObject(S).serverSignature) :
       Commit(_handleAuthSASLFinal(S, [data |-> data]))

\* The backend owes a ReadyForQuery: the one that ends the handshake, or the
\* one that closes the window of a query on the wire.
ReadyForQueryDue == _connecting \/ wire # << >>

\* The backend sends ReadyForQuery; one that nothing asked for counts as a
\* fault of the backend
ReadyForQuery ==
  /\ Idle
  /\ Readable
  /\ IF ReadyForQueryDue
     THEN Commit(_handleReadyForQuery(S))
     ELSE /\ faults < MaxFaults
          /\ Commit(_handleReadyForQuery([S EXCEPT !.faults = @ + 1]))

\* The stream closes and the connection emits 'end'
TransportEnd ==
  /\ Idle
  /\ connection._connecting
  /\ connection.stream \in {"open", "ended", "destroyed"}
  /\ ~connection.streamError
  /\ Commit(OnConnectionEnd([S EXCEPT !.connection.stream = "closed"]))

Next ==
  \/ Connect
  \/ Query
  \/ End
  \/ Tick
  \/ ConnectTimeout
  \/ TransportError
  \/ ErrorResponse
  \/ ReadyForQuery
  \/ TransportEnd

Spec == Init /\ [][Next]_vars

\* The handshake and the shutdown of a session with the backend's key data
\* and with repeated connect() calls, before the application issues a query.
\* processID and secretKey are read by no handler above, so Spec leaves the
\* BackendKeyData message out; in Spec the application calls connect() once.
NextWithKeys ==
  \/ Connect
  \/ ConnectAgain
  \/ End
  \/ Tick
  \/ ConnectTimeout
  \/ TransportError
  \/ ErrorResponse
  \/ BackendKeyData
  \/ ReadyForQuery
  \/ TransportEnd

SpecWithKeys == Init /\ [][NextWithKeys]_vars

\* A session configured with query_timeout: every query carries a read
\* timeout, which may or may not expire before the query completes.
NextReadTimeout ==
  \/ Connect
  \/ QueryWithTimeout
  \/ End
  \/ Tick
  \/ ReadTimeout
  \/ TransportError
  \/ ErrorResponse
  \/ ReadyForQuery
  \/ TransportEnd

SpecReadTimeout == Init /\ [][NextReadTimeout]_vars

\* A session with the backend's result messages, which can come with or
\* without an active query.
NextMessages ==
  \/ Connect
  \/ Query
  \/ Tick
  \/ RowDescription
  \/ CommandComplete
  \/ ErrorResponse
  \/ ReadyForQuery
  \/ TransportEnd

SpecMessages == Init /\ [][NextMessages]_vars

\* A session whose queries the application cancels, each time through a
\* client made for the purpose.  The queries pass their preflight, so that
\* no callback waits in nextTick.
NextCancel ==
  \/ Connect
  \/ QueryWritten
  \/ Cancel
  \/ CancelConnect
  \/ BackendKeyData
  \/ ReadyForQuery

SpecCancel == Init /\ [][NextCancel]_vars

\* The SASL exchange of the handshake.
NextSasl ==
  \/ Connect
  \/ AuthenticationSASL
  \/ AuthenticationSASLContinue
  \/ ContinueSessionSettles
  \/ AuthenticationSASLFinal
  \/ ReadyForQuery

SpecSasl == Init /\ [][NextSasl]_vars

\* ------------------------------------------------------------------ claims

Queries == DOMAIN queryInfo
SeqRange(f) == {f[i] : i \in DOMAIN f}
Increasing(f) == \A i, j \in DOMAIN f : i < j => f[i] < f[j]

\* Deliveries of an error to query q still waiting in nextTick.
PendingFor(q) ==
  {i \in DOMAIN nextTick : nextTick[i].id = q
                           /\ nextTick[i].task \in {"handleError", "submitError"}}

\* A step in which the application calls connect(), query() or end().
ConnectStep == Len(connectLog') = Len(connectLog) + 1
QueryStep == Len(queryInfo') = Len(queryInfo) + 1
EndStep == Len(endLog') = Len(endLog) + 1

\* The connect phase is over and no connect callback is still scheduled.
ConnectPhaseOver ==
  /\ _connected \/ _ended
  /\ \A i \in DOMAIN nextTick : nextTick[i].task # "callback"

\* C1: on a session the application has not asked to end, the callback of
\* every connect() call is invoked at most once, and exactly once when the
\* connect phase is over.
ConnectCompletesExactlyOnce ==
  ~_ending =>
    \A c \in DOMAIN connectLog :
      /\ Len(connectLog[c]) <= 1
      /\ ConnectPhaseOver => Len(connectLog[c]) = 1

\* C2: a connect() call on a connecting or connected session schedules the
\* 'already connected' error for its own callback and changes nothing else:
\* no transport is opened, no flag changes, and while connecting the pending
\* callback stays the one of the first call.
SecondConnectChangesNothing ==
  [][ (ConnectStep /\ (_connecting \/ _connected)) =>
        /\ nextTick' = Append(nextTick, [task |-> "callback",
                                         id |-> Len(connectLog'),
                                         err |-> "already"])
        /\ opens' = opens
        /\ connection' = connection
        /\ << _connecting, _connected, _ending, _ended, _queryable,
              _connectionError >>' =
           << _connecting, _connected, _ending, _ended, _queryable,
              _connectionError >>
        /\ _connecting => _connectionCallback' = _connectionCallback ]_vars

\* C3: queries are written to the transport in the order of the query()
\* calls, only the query written last can still have its window open, and
\* the ReadyForQuery that completes a query comes in the order of the calls.
QueriesRunInEnqueueOrder ==
  /\ Increasing(submitted)
  /\ Increasing(closed)
  /\ SeqRange(closed) \subseteq SeqRange(submitted)
  /\ \A i \in DOMAIN submitted :
       i < Len(submitted) => submitted[i] \notin SeqRange(wire)

\* C3 witness: two queries were queued together, and ran and completed in
\* the order of their calls.
TwoQueriesInOrderWitness ==
  /\ Len(closed) >= 2 /\ closed[1] = 1 /\ closed[2] = 2
  /\ Len(submitted) >= 2 /\ submitted[1] = 1 /\ submitted[2] = 2

\* C4: while a query is active readyForQuery is false and no other query has
\* an open window; at most one window is open at any time.
OneQueryOnTheWire ==
  /\ Len(wire) <= 1
  /\ _activeQuery # 0 =>
       /\ ~readyForQuery
       /\ \A i \in DOMAIN wire : wire[i] = _activeQuery

\* C4 witness: a query is executing while another one waits in the queue.
ActiveWithQueuedWitness ==
  /\ _activeQuery # 0
  /\ wire = << _activeQuery >>
  /\ _queryQueue # << >>

\* Query q was written to the transport and neither its ReadyForQuery nor an
\* error for it has been observed.
Outstanding(q) ==
  /\ q \in SeqRange(submitted)
  /\ queryLog[q] = << >>
  /\ PendingFor(q) = {}

\* The preflight error of q waits in nextTick.
PreflightPending(q) ==
  \E i \in DOMAIN nextTick : nextTick[i].task = "submitError" /\ nextTick[i].id = q

\* C5 as claimed: a query is the active one exactly while it is outstanding,
\* no query is active while readyForQuery is true, and a query whose submit()
\* returned a preflight error is never the active one.
ActiveIffOutstanding ==
  /\ \A q \in Queries : (_activeQuery = q) <=> Outstanding(q)
  /\ readyForQuery => _activeQuery = 0
  /\ \A q \in Queries : queryInfo[q].submitError => _activeQuery # q

\* C5 amended: a query is the active one exactly while it is outstanding or
\* while its preflight error waits for the next tick; no query is active
\* while readyForQuery is true.
ActiveIffOutstandingOrPreflightPending ==
  /\ _activeQuery \in Queries \cup {0}
  /\ \A q \in Queries : (_activeQuery = q) <=> (Outstanding(q) \/ PreflightPending(q))
  /\ readyForQuery => _activeQuery = 0

\* C5 witness: a query whose submit() returned an error is held as the
\* active query until the next tick.
PreflightHeldActiveWitness ==
  /\ _activeQuery # 0
  /\ queryInfo[_activeQuery].submitError
  /\ PreflightPending(_activeQuery)
  /\ _activeQuery \notin SeqRange(submitted)

\* C6: a query() call made after queryable became false or after end() was
\* called gets exactly one error, delivered from a later tick, and the query
\* is never queued, active or written to the transport.
RefusedQueriesNeverRun ==
  \A q \in Queries :
    queryInfo[q].late =>
      /\ q \notin SeqRange(_queryQueue)
      /\ _activeQuery # q
      /\ q \notin SeqRange(submitted)
      /\ Len(queryLog[q]) + Cardinality(PendingFor(q)) = 1
      /\ \A i \in DOMAIN queryLog[q] :
           /\ queryLog[q][i].ev = "error"
           /\ queryLog[q][i].tick
           /\ queryLog[q][i].err \in {"notQueryable", "closed"}

\* C6 witness: a query issued after end() and one issued on a broken
\* session have each received their error.
RefusedQueryWitness ==
  \E q \in Queries :
    /\ queryInfo[q].late
    /\ Len(queryLog[q]) = 1
    /\ queryLog[q][1].err = "notQueryable"

\* The queries a transport error reached: it was delivered to them or waits
\* in nextTick for them.
HitBySocketError ==
  {q \in Queries :
     \/ \E i \in DOMAIN queryLog[q] : queryLog[q][i].err = "socket"
     \/ \E i \in PendingFor(q) : nextTick[i].err = "socket"}

ErrorsFor(q) ==
  Cardinality({i \in DOMAIN queryLog[q] : queryLog[q][i].ev = "error"})
    + Cardinality(PendingFor(q))

\* A transport error came while one query was executing and another queued.
SocketErrorMidExecuting ==
  /\ Cardinality(HitBySocketError) >= 2
  /\ \E q \in HitBySocketError : q \in SeqRange(submitted)

\* C7 as claimed: after a transport error with a query executing and others
\* queued, queryable is false, each of these queries gets an error exactly
\* once, and the session emits one 'error' event for the rest of its life.
OneErrorEventAfterSocketError ==
  SocketErrorMidExecuting =>
    /\ ~_queryable
    /\ \A q \in HitBySocketError : ErrorsFor(q) = 1
    /\ emitted["error"] = 1

\* C7 amended: after such a transport error queryable is false and each of
\* these queries gets an error exactly once; every transport error on a
\* session that is not connecting emits exactly one 'error' event, and the
\* end of the transport emits one more when end() was not called and no
\* error was latched while connecting.
OneErrorEventPerSocketError ==
  /\ [](SocketErrorMidExecuting =>
          /\ ~_queryable
          /\ \A q \in HitBySocketError : ErrorsFor(q) = 1
          /\ emitted["error"] >= 1)
  /\ [](emitted["error"] <= faults + (IF _ended THEN 1 ELSE 0))
  /\ [][ /\ (TransportError /\ ~_connecting) =>
              emitted'["error"] = emitted["error"] + 1
         /\ (TransportEnd /\ ~_connecting) =>
              emitted'["error"] = emitted["error"]
                + (IF ~_ending /\ ~_connectionError THEN 1 ELSE 0) ]_vars

\* C7 witness: the transport error reached an executing and a queued query,
\* both have their error, and the transport then ended unexpectedly: two
\* 'error' events were emitted.
SocketErrorThenEndWitness ==
  /\ SocketErrorMidExecuting
  /\ \A q \in HitBySocketError : Len(queryLog[q]) = 1
  /\ _ended /\ ~_ending
  /\ emitted["error"] = 2

\* C8 as claimed: at most one of connecting, connected and ended is true;
\* connecting turns into connected at a ReadyForQuery; ended stays true.
OneOfConnectingConnectedEnded ==
  /\ [](Cardinality({f \in {1, 2, 3} : << _connecting, _connected, _ended >>[f]}) <= 1)
  /\ [][ /\ (_connecting /\ ~_connecting') => (ReadyForQuery /\ _connected')
         /\ (~_connected /\ _connected') => (ReadyForQuery /\ _connecting)
         /\ _ended => _ended' ]_vars

\* C8 amended: connecting and connected are never both true (ended can be
\* true together with either, the flags are not cleared when the transport
\* ends); connecting becomes false and connected true at the ReadyForQuery
\* handled while connecting, and every ReadyForQuery leaves the session
\* connected; connected and ended never become false again.
ConnectingThenConnectedAndEndedStays ==
  /\ [](~(_connecting /\ _connected))
  /\ [][ /\ (_connecting /\ ~_connecting') => (ReadyForQuery /\ _connected')
         /\ (~_connected /\ _connected') => (ReadyForQuery /\ _connecting /\ ~_connecting')
         /\ ReadyForQuery => (_connected' /\ ~_connecting')
         /\ _connected => _connected'
         /\ _ended => _ended' ]_vars

\* C8 witness: the transport of a connected session has ended; connected and
\* ended are both true.
ConnectedAndEndedWitness ==
  /\ _connected /\ _ended /\ ~_connecting
  /\ emitted["connect"] = 1

\* C9 as claimed: once set, processID and secretKey never change.
KeysWriteOnce ==
  [][ /\ processID # 0 => processID' = processID
      /\ secretKey # 0 => secretKey' = secretKey ]_vars

\* C9 amended: processID and secretKey change only when a BackendKeyData
\* message is handled, and every such message stores its two values, also
\* over the values of an earlier message.
KeysSetByEveryBackendKeyData ==
  [][ /\ (processID' # processID \/ secretKey' # secretKey) => BackendKeyData
      /\ BackendKeyData => /\ processID' \in 1..MaxKey
                           /\ secretKey' = MaxKey + 1 - processID' ]_vars

\* C9 witness: the session is connected and holds the key data of a message.
KeysStoredWitness ==
  /\ _connected
  /\ processID = 2 /\ secretKey = MaxKey - 1

\* C10: an end() call on a session whose transport was opened and has not
\* ended calls stream.destroy() exactly when a query is active or queryable
\* is false; otherwise it calls connection.end() (which writes Terminate on a
\* writable stream) and does not call stream.destroy().
EndDestroysIffActiveOrNotQueryable ==
  [][ (EndStep /\ connection._connecting /\ ~_ended) =>
        IF _activeQuery # 0 \/ ~_queryable
        THEN /\ streamCalls'["destroy"] = streamCalls["destroy"] + 1
             /\ streamCalls'["end"] = streamCalls["end"]
             /\ streamCalls'["terminate"] = streamCalls["terminate"]
        ELSE /\ streamCalls'["destroy"] = streamCalls["destroy"]
             /\ streamCalls'["end"] = streamCalls["end"] + 1
             /\ (connection.stream = "open") =>
                   streamCalls'["terminate"] = streamCalls["terminate"] + 1 ]_vars

\* C10 witness: end() on a connected, idle, healthy session wrote Terminate
\* and did not destroy the stream.
EndGracefulWitness ==
  /\ _connected /\ _ending /\ ~_ended /\ _queryable
  /\ streamCalls["terminate"] = 1 /\ streamCalls["destroy"] = 0
  /\ connection.stream = "ended"

\* C11: an end() call on a session on which end() was called before leaves
\* the session state as it is and acts no further on the transport: it
\* writes no second Terminate and does not destroy the stream.
SecondEndChangesNothing ==
  [][ (EndStep /\ _ending) =>
        /\ << _ending, _ended, _connecting, _connected, _connectionError,
              _queryable, _activeQuery, _queryQueue, readyForQuery >>' =
           << _ending, _ended, _connecting, _connected, _connectionError,
              _queryable, _activeQuery, _queryQueue, readyForQuery >>
        /\ connection' = connection
        /\ streamCalls'["terminate"] = streamCalls["terminate"] ]_vars

\* C12: an end() call made on a session whose transport was never opened or
\* has already ended completes within the call, in the callback and in the
\* promise form, and no end() call completes more than once.
EndCompletesOnceImmediately ==
  /\ [](\A e \in DOMAIN endLog : endLog[e] <= 1)
  /\ [][ (EndStep /\ (~connection._connecting \/ _ended)) =>
           endLog'[Len(endLog')] = 1 ]_vars

\* The queries the session holds: the active one and the queued ones.
Held == (IF _activeQuery # 0 THEN << _activeQuery >> ELSE << >>) \o _queryQueue

\* C13: when the end of the transport is observed every query the session
\* holds is failed, with 'Connection terminated' when end() had been called
\* and with 'Connection terminated unexpectedly' otherwise; and from then on
\* no query is active and none is queued.
TransportEndFailsEveryQuery ==
  /\ [](_ended => (_activeQuery = 0 /\ _queryQueue = << >>))
  /\ [][ TransportEnd =>
           SubSeq(nextTick', 1, Len(Held)) =
             [i \in 1..Len(Held) |->
                [task |-> "handleError", id |-> Held[i],
                 err |-> IF _ending THEN "terminated" ELSE "unexpected"]] ]_vars

\* What the end of the transport delivers as 'Connection terminated
\* unexpectedly': to the pending connect callback, as an 'error' event, or
\* to neither.
UnexpectedToCallback ==
  /\ connectLog' = [connectLog EXCEPT ![_connectionCallback] = Append(@, "unexpected")]
  /\ emitted'["error"] = emitted["error"]
UnexpectedAsEvent ==
  /\ connectLog' = connectLog
  /\ emitted'["error"] = emitted["error"] + 1
UnexpectedToNobody ==
  /\ connectLog' = connectLog
  /\ emitted'["error"] = emitted["error"]

\* C14 as claimed: the end of the transport is observed once; when end() was
\* not called it delivers 'Connection terminated unexpectedly' exactly once,
\* to the connect callback if the session is connecting and a callback is
\* pending and as an 'error' event otherwise; when end() was called it
\* delivers no such error.
UnexpectedEndReportedOnce ==
  [][ /\ _ended => ~TransportEnd
      /\ TransportEnd =>
           IF _ending THEN UnexpectedToNobody
           ELSE IF _connecting /\ _connectionCallback # 0 THEN UnexpectedToCallback
           ELSE UnexpectedAsEvent ]_vars

\* C14 amended: as claimed, except that the end of the transport delivers no
\* error either when an error of the connect phase was latched before.
UnexpectedEndReportedOnceUnlessLatched ==
  [][ /\ _ended => ~TransportEnd
      /\ TransportEnd =>
           IF _ending \/ _connectionError THEN UnexpectedToNobody
           ELSE IF _connecting /\ _connectionCallback # 0 THEN UnexpectedToCallback
           ELSE UnexpectedAsEvent ]_vars

\* C14 witness: the transport of a connected session ended without end()
\* and without any earlier fault, and the session emitted one 'error'.
UnexpectedEndEventWitness ==
  /\ _ended /\ ~_ending /\ _connected
  /\ faults = 0 /\ ~_connectionError
  /\ emitted["error"] = 1

\* The error deliveries that the end of the transport scheduled and that
\* have not run yet.
EndErrorsPending ==
  {i \in DOMAIN nextTick : /\ nextTick[i].task = "handleError"
                           /\ nextTick[i].err \in {"terminated", "unexpected"}}

EmitEndPending == {i \in DOMAIN nextTick : nextTick[i].task = "emitEnd"}

\* C15: 'end' is emitted at most once; the step that observes the end of
\* the transport does not emit it but schedules it, behind the error
\* deliveries to the queries held at that moment; it is emitted from a later
\* tick, when all these deliveries have run.
EndEventOnceAndDeferred ==
  /\ [](emitted["end"] + Cardinality(EmitEndPending) <= 1)
  /\ [](\A i \in EmitEndPending : \A j \in EndErrorsPending : j < i)
  /\ [](emitted["end"] = 1 => (_ended /\ EndErrorsPending = {}))
  /\ [][ /\ TransportEnd => /\ emitted'["end"] = emitted["end"]
                             /\ Cardinality(EmitEndPending') = 1
                             /\ Cardinality(EndErrorsPending') = Len(Held)
         /\ emitted'["end"] # emitted["end"] => Tick ]_vars

\* C15 witness: the transport ended under two held queries, both have been
\* told, and 'end' has been emitted.
EndEventAfterErrorsWitness ==
  /\ emitted["end"] = 1
  /\ Cardinality({q \in Queries :
        \E i \in DOMAIN queryLog[q] :
           queryLog[q][i].err \in {"terminated", "unexpected"}}) >= 2

\* C16: an ErrorResponse handled while a query is active on a session that
\* is not connecting clears activeQuery and is delivered to that query only:
\* the queue, the other queries, the flags and the emitted events stay as
\* they are, with queryable true; and a ReadyForQuery that finds no active
\* query and a non-empty queue makes the head of the queue the active query.
ErrorResponseFailsActiveQueryOnly ==
  [][ /\ (ErrorResponse /\ ~_connecting /\ _activeQuery # 0) =>
           /\ _activeQuery' = 0
           /\ Len(queryLog'[_activeQuery]) = Len(queryLog[_activeQuery]) + 1
           /\ queryLog'[_activeQuery][Len(queryLog'[_activeQuery])].err = "backend"
           /\ \A q \in Queries : q # _activeQuery => queryLog'[q] = queryLog[q]
           /\ nextTick' = nextTick
           /\ _queryQueue' = _queryQueue
           /\ _queryable /\ _queryable'
           /\ emitted' = emitted
           /\ << _ending, _ended, _connecting, _connected, readyForQuery >>' =
              << _ending, _ended, _connecting, _connected, readyForQuery >>
      /\ (ReadyForQuery /\ _activeQuery = 0 /\ _queryQueue # << >>) =>
           /\ _activeQuery' = Head(_queryQueue)
           /\ _queryQueue' = Tail(_queryQueue) ]_vars

\* C16 witness: the first query failed with the backend's ErrorResponse, the
\* session stayed usable and the query queued behind it was submitted.
ErrorResponseThenNextQueryWitness ==
  /\ Len(queryLog) >= 2
  /\ \E i \in DOMAIN queryLog[1] : queryLog[1][i].err = "backend"
  /\ submitted = << 1, 2 >>
  /\ _queryable /\ emitted["error"] = 0

\* What the session does with a protocol violation it recognises: the
\* session is broken, the queued queries are failed, 'error' is emitted.
RaisesSessionError ==
  /\ ~_queryable'
  /\ _queryQueue' = << >>
  /\ emitted'["error"] = emitted["error"] + 1
  /\ Cardinality({i \in DOMAIN nextTick' : nextTick'[i].task = "handleError"}) =
       Len(_queryQueue)
  /\ uncaught' = uncaught

\* C17: RowDescription, DataRow, PortalSuspended, EmptyQueryResponse,
\* CopyInResponse or CopyData handled without an active query, on a session
\* that is not connecting, raises a session error exactly as CommandComplete
\* and ParseComplete do.
ResultMessageWithoutQueryIsSessionError ==
  [][ /\ (CommandComplete /\ _activeQuery = 0 /\ ~_connecting) => RaisesSessionError
      /\ (RowDescription /\ _activeQuery = 0 /\ ~_connecting) => RaisesSessionError ]_vars

\* In this step query q is told of an error (Query.handleError is called),
\* or the caller's callback of q receives one.
ToldOfError(q) ==
  \/ /\ Len(queryLog'[q]) = Len(queryLog[q]) + 1
     /\ queryLog'[q][Len(queryLog'[q])].ev = "error"
  \/ /\ Len(queryCallback'[q]) = Len(queryCallback[q]) + 1
     /\ queryCallback'[q][Len(queryCallback'[q])] # "ok"

ReadTimeoutCallbackOnce ==
  /\ [](\A q \in Queries :
          readTimeoutTimer[q] # "none" =>
            /\ Len(queryCallback[q]) <= 1
            /\ readTimeoutTimer[q] = "armed" => queryCallback[q] = << >>
            /\ readTimeoutTimer[q] = "fired" => queryCallback[q] = << "readTimeout" >>
            /\ readTimeoutTimer[q] = "cleared" =>
                 /\ Len(queryCallback[q]) = 1
                 /\ queryCallback[q][1] # "readTimeout")
  /\ [][ \A q \in Queries :
           readTimeoutTimer[q] \in {"fired", "cleared"} =>
             /\ readTimeoutTimer'[q] = readTimeoutTimer[q]
             /\ queryCallback'[q] = queryCallback[q] ]_vars

\* C19 witness: the read timer of a query fired while it was executing, the
\* backend's ReadyForQuery for it came later, and the caller's callback has
\* received the timeout only; another query completed before its timer.
TimedOutThenCompletedWitness ==
  /\ \E q \in Queries :
        /\ readTimeoutTimer[q] = "fired"
        /\ \E i \in DOMAIN queryLog[q] : queryLog[q][i].ev = "ready"
        /\ queryCallback[q] = << "readTimeout" >>
  /\ \E q \in Queries :
        /\ readTimeoutTimer[q] = "cleared"
        /\ queryCallback[q] = << "ok" >>

\* C20: the read timer that fires for a queued query takes this query out
\* of the queue and leaves the active query, the other queued queries and
\* their order, what was written to the transport, the other queries'
\* timers and callbacks and the session's flags as they are; a query timed
\* out before it was submitted is never queued or submitted afterwards.
ReadTimeoutTimesOutOneQuery ==
  [][ \A q \in Queries :
        /\ ( /\ ReadTimeout
             /\ readTimeoutTimer[q] = "armed" /\ readTimeoutTimer'[q] = "fired"
             /\ q \in SeqRange(_queryQueue) ) =>
               /\ _queryQueue' = SelectSeq(_queryQueue, LAMBDA x : x # q)
               /\ Len(_queryQueue') = Len(_queryQueue) - 1
               /\ _activeQuery' = _activeQuery
               /\ submitted' = submitted /\ wire' = wire
               /\ << _queryable, _ending, _ended, _connecting, _connected,
                     readyForQuery, emitted, connection >>' =
                  << _queryable, _ending, _ended, _connecting, _connected,
                     readyForQuery, emitted, connection >>
               /\ \A p \in Queries :
                    p # q => /\ readTimeoutTimer'[p] = readTimeoutTimer[p]
                             /\ queryCallback'[p] = queryCallback[p]
                             /\ queryLog'[p] = queryLog[p]
        /\ (readTimeoutTimer[q] = "fired" /\ q \notin SeqRange(submitted)) =>
               /\ q \notin SeqRange(submitted')
               /\ q \notin SeqRange(_queryQueue')
               /\ _activeQuery' # q ]_vars

\* C20 witness: the first query timed out while it was queued and was never
\* submitted; the query queued behind it was submitted and completed.
QueuedQueryTimedOutWitness ==
  /\ Len(readTimeoutTimer) >= 2
  /\ readTimeoutTimer[1] = "fired"
  /\ submitted = << 2 >>
  /\ queryCallback[2] = << "ok" >>
  /\ _queryable /\ _connected


\* ------------------------------------------------------------------- drain

\* The step emits 'drain'.
DrainStep == emitted'["drain"] # emitted["drain"]

TargetExceptQueue ==
  << _ending, _ended, _connecting, _connected, _connectionError, _queryable,
     _activeQuery, readyForQuery, hasExecuted, _connectionCallback,
     connectionTimeoutHandle, processID, secretKey, connection, nextTick,
     endListeners, connectLog, queryInfo, queryLog, readTimeoutTimer,
     queryCallback, uncaught, submitted, wire, closed, emitted, endLog,
     streamCalls, opens, faults, password, saslStream, saslSessions,
     saslSession, saslContinuations, saslLog, saslSent >>

PositionIn(queue, q) == CHOOSE i \in DOMAIN queue : queue[i] = q

\* C22: cancel(target, q) changes nothing of the target but its queue, and so
\* nothing of the target's connection.  For the active query the cancelling
\* client opens its own stream and, once that is connected, sends one
\* CancelRequest with the target's processID and secretKey; a queued query is
\* taken out of the queue and the others keep their order; for any other
\* query nothing changes.
CancelLeavesTargetConnection ==
  /\ [][ Cancel =>
           LET c == Len(cancellers')
               q == cancellers'[c].query
           IN /\ UNCHANGED TargetExceptQueue
              /\ \A d \in DOMAIN cancellers : cancellers'[d] = cancellers[d]
              /\ cancellers'[c].sent = << >>
              /\ IF q = _activeQuery
                 THEN /\ _queryQueue' = _queryQueue
                      /\ cancellers'[c].stream = "open"
                      /\ cancellers'[c].listening
                 ELSE /\ cancellers'[c].stream = "new"
                      /\ ~cancellers'[c].listening
                      /\ SeqRange(_queryQueue') = SeqRange(_queryQueue) \ {q}
                      /\ Len(_queryQueue') = Cardinality(SeqRange(_queryQueue) \ {q})
                      /\ \A i, j \in DOMAIN _queryQueue' :
                           i < j => PositionIn(_queryQueue, _queryQueue'[i])
                                      < PositionIn(_queryQueue, _queryQueue'[j]) ]_vars
  /\ [][ CancelConnect =>
           /\ UNCHANGED << TargetExceptQueue, _queryQueue >>
           /\ \E c \in DOMAIN cancellers :
                /\ cancellers[c].stream = "open"
                /\ cancellers' =
                     [cancellers EXCEPT
                        ![c].stream = "connected",
                        ![c].sent = << [processID |-> processID,
                                        secretKey |-> secretKey] >>] ]_vars
  /\ [][ cancellers' # cancellers => Cancel \/ CancelConnect ]_vars

\* One cancelling client has sent the CancelRequest with the target's keys,
\* another has taken a queued query out of the queue.
CancelSentAndQueuedRemovedWitness ==
  /\ processID # 0
  /\ \E c, d \in DOMAIN cancellers :
       /\ cancellers[c].sent = << [processID |-> processID, secretKey |-> secretKey] >>
       /\ cancellers[c].query = _activeQuery
       /\ cancellers[d].stream = "new"
       /\ cancellers[d].query \notin SeqRange(submitted) \cup SeqRange(_queryQueue)
       /\ queryLog[cancellers[d].query] = << >>
       /\ ~queryInfo[cancellers[d].query].submitError

\* -------------------------------------------------------------------- SASL

\* The step finishes the handling of a SASL message.
SaslStep == Len(saslLog') = Len(saslLog) + 1

\* What the SASL message handled by the step was, and what it threw.
SaslHandled == saslLog'[Len(saslLog')]

\* saslLog[i] is a message of the given kind that was handled without error.
Succeeded(i, step) == saslLog[i].step = step /\ saslLog[i].error = "none"

\* this.saslSession before the step.
CurrentSession == IF saslSession = 0 THEN NoSession ELSE saslSessions[saslSession]

\* The step handles a final message; the step calls continueSession; a
\* continueSession call settles in the step.
FinalStep == SaslStep /\ SaslHandled.step = "final"
ContinueCallStep == Len(saslContinuations') = Len(saslContinuations) + 1
ContinueSettleStep == Len(saslContinuations') = Len(saslContinuations) - 1

\* C23: a SASL step that throws sends no message and reaches the client as
\* an error of the connection: while connecting it latches the connect-phase
\* error and, unless an earlier error has failed the connect call already,
\* calls the connect callback with the error; on a connected session it is
\* a session error.  A step that does not throw raises no error.  A final
\* message without a session, or a continuation on a session that is gone,
\* throws.
SaslExceptionFailsConnect ==
  /\ [][ (SaslStep /\ SaslHandled.error # "none") =>
           /\ saslSent' = saslSent
           /\ IF _connecting
              THEN /\ _connectionError'
                   /\ _connecting'
                   /\ IF _connectionError
                      THEN connectLog' = connectLog /\ emitted' = emitted
                      ELSE IF _connectionCallback # 0
                      THEN /\ connectLog' = [connectLog EXCEPT ![_connectionCallback] =
                                                Append(@, "sasl")]
                           /\ emitted' = emitted
                      ELSE /\ connectLog' = connectLog
                           /\ emitted' = [emitted EXCEPT !["error"] = @ + 1]
              ELSE /\ emitted' = [emitted EXCEPT !["error"] = @ + 1]
                   /\ ~_queryable' ]_vars
  /\ [][ (SaslStep /\ SaslHandled.error = "none") =>
           /\ connectLog' = connectLog
           /\ emitted' = emitted
           /\ _connectionError' = _connectionError
           /\ Len(saslSent') = Len(saslSent) + (IF SaslHandled.step = "final" THEN 0 ELSE 1) ]_vars
  /\ [][ (FinalStep /\ saslSession = 0) => SaslHandled.error = "TypeError" ]_vars
  /\ [][ (ContinueSettleStep /\ Head(saslContinuations).session = 0) =>
           (SaslStep /\ SaslHandled.error = "TypeError") ]_vars

\* After a session started, a final message out of order has failed the
\* connect call, and only the initial response was sent.
SaslOutOfOrderFailsConnectWitness ==
  /\ Len(saslLog) = 2
  /\ Succeeded(1, "start")
  /\ saslLog[2].step = "final"
  /\ saslLog[2].error = "last message was not SASLResponse"
  /\ connectLog = << << "sasl" >> >>
  /\ Len(saslSent) = 1
  /\ _connecting

\* The continueSession call the step has made.
ContinueCalled == saslContinuations'[Len(saslContinuations')]

StartSessionPicksFirstOffered ==
  [][ (SaslStep /\ SaslHandled.step = "start") =>
        LET offered == SaslHandled.offered
            plus == saslStream'.kind = "tls" /\ ScramSha256Plus \in offered
            plain == ScramSha256 \in offered
        IN /\ SaslHandled.error # "none" <=> ~(plus \/ plain)
           /\ SaslHandled.error = "none" =>
                LET sent == saslSent'[Len(saslSent')]
                IN /\ Len(saslSent') = Len(saslSent) + 1
                   /\ sent.mechanism = IF plus THEN ScramSha256Plus ELSE ScramSha256
                   /\ Head(Split(sent.data)) =
                        IF plus THEN TlsServerEndPoint
                        ELSE IF saslStream'.kind = "tls" THEN << 121 >>
                        ELSE << 110 >> ]_vars

\* ----------------------------------------------------- queries after end()

\* C26: once end() has been called no query is written to the transport and
\* no queued query becomes the active one; the queries still queued are
\* failed when the transport ends.
NoSubmitAfterEnd ==
  /\ [][ _ending => submitted' = submitted ]_vars
  /\ [][ _ending => _activeQuery' \in {_activeQuery, 0} ]_vars
  /\ [][ (TransportEnd /\ _ending) =>
           \A i \in DOMAIN _queryQueue :
              \E k \in DOMAIN nextTick' : /\ nextTick'[k].id = _queryQueue[i]
                                          /\ nextTick'[k].task = "handleError" ]_vars
====
